---- MODULE Spec2Model ----
(***************************************************************************)
(* Model of ble_hrs_server/conn.py: the reconnecting BLE connection        *)
(* (BaseBLEConnection / BLEHRSConnection), its supervising loop task, the  *)
(* start()/shutdown()/__aenter__ entry points and the transport handle.    *)
(*                                                                         *)
(* The program runs on one asyncio event loop.  A coroutine runs without   *)
(* interruption from one await to the next, so every action below is the   *)
(* code between two suspension points of one coroutine.  The transport     *)
(* (bleak) is the environment: the outcome of connect(), the presence of   *)
(* the HRM characteristic and the moment the link drops are chosen         *)
(* nondeterministically.  The disconnected callback is invoked by the      *)
(* transport when the link of the current handle drops; an explicit        *)
(* disconnect() issued by the program is not reported through it.  Every   *)
(* handle carries the same callback, so the loss of a link is reported     *)
(* whether or not self.client still references the handle.                 *)
(*                                                                         *)
(* The module also models the telemetry path of BLEHRSConnection: the      *)
(* frame decoder (parse_hrm_pkg, and parse_val of data.py), the            *)
(* notification callback, the handlers subscribed on the channels and the  *)
(* generator of iter().  Spec and FairSpec are the connection lifecycle    *)
(* with no handler subscribed; DecodeSpec applies the decoder to frames;   *)
(* NotifySpec, StreamSpec, ClosingSpec and RecoverySpec start from a       *)
(* started Connection with handlers subscribed; AvailableSpec is           *)
(* construct_available_conn of main.py waiting for the first connection    *)
(* of the Connection it has built and started.                             *)
(***************************************************************************)
EXTENDS Integers, FiniteSets, Sequences, TLC

\* Number of start() coroutines (and hence loop tasks) a behaviour may create.
MaxStarts == 2
\* Number of shutdown() calls made from outside the Connection.
MaxShutdowns == 2
\* Number of handler invocations that may be scheduled and not yet run.
MaxPending == 2
\* Length of the longest notification value the peripheral sends.
MaxFrameLen == 4
\* Number of notifications the peripheral sends.
MaxNotifs == 2
\* Number of invocations a subscribed handler counts.
MaxSeen == 2
\* Number of lines the logging handlers keep.
MaxLog == 6
\* Number of end markers on their way to the consumer of iter() with which no
\* further link drops.
MaxMarkers == 1

VARIABLES
    device,          \* the peripheral the address resolves to (environment)
    client,          \* self.client: "none", or the is_connected state of the handle
    orphans,         \* handles no longer referenced by self.client: up counts
                     \* the connected ones nothing disconnects, closing the
                     \* connected ones with a disconnect() in flight, gone
                     \* those with a disconnect() in flight and the link lost
    reconnect_task,  \* self._reconnect_task: 0 (None) or a task id
    task,            \* the supervising loop tasks, by id
    starter,         \* the start() coroutines, by id (coroutine i awaits task i)
    pubs,            \* publications on starting_sig and shutting_down_sig
    api,             \* bookkeeping about the calls made from outside
    slots,           \* Signal.slots of every channel: the subscribed handlers
    pending,         \* handler invocations scheduled by task_gather and not
                     \* yet over, in the order of their publication
    seen,            \* what the subscribed handlers and sig_exc_handler have done
    stream,          \* the generator of iter() and its consumer
    notif,           \* the notification callback: its input and what it did
    first_conn_ok_fut \* the future of construct_available_conn (main.py)

\* A task record: st is the asyncio state of the task ("none" not created,
\* "active", "cancelling" cancel() called and CancelledError not yet delivered,
\* "cancelled", "crashed" ended by an exception err); pc is the await the loop
\* is suspended in ("init" not yet run, "reset" line 63, "connect" line 69,
\* "retry_wait" line 72, "prepare" line 76, "wait" line 79, "woken" line 79
\* with the event set, "lost_wait" line 83); pubs counts the publications of
\* the current loop iteration per channel; dropped records that the link
\* of the handle of the current iteration has dropped and the transport has
\* invoked the disconnect callback for it.
\* A start() record: pc is "unused", "await_task" (line 93), "closing" (line
\* 95, in shutdown()'s disconnect) or "done"; result is what start() raised.
\* api: refused flips at every refused start(); shutdowns counts the
\* shutdown() calls from outside and closing those still in disconnect();
\* shut_row counts the shutdown() runs since the last accepted start(); probe
\* is the position of the construct_available_conn coroutine: "none" (not
\* called), "await_fut" (main.py line 98), "closing" (line 103, in shutdown()'s
\* disconnect), "returned_conn" (line 101) or "returned_None" (line 104).
\* ws is the position of the websocket endpoint of app.py for one client:
\* "none" (no client yet), "accepted" (suspended in ws.accept(), line 62, past
\* the test of started), "sending" (suspended in ws.send_text(), lines 63-65),
\* "open" (suspended in ws.receive_text(), line 89, its four handlers
\* subscribed) or "closed" (the endpoint has returned or raised).
\* first_conn_ok_fut is "none" (not created), "pending", "True" or "False".

vars == <<device, client, orphans, reconnect_task, task, starter, pubs, api,
          slots, pending, seen, stream, notif, first_conn_ok_fut>>

\* The state outside the connection lifecycle proper.
bus == <<slots, pending, seen, stream, notif, first_conn_ok_fut>>

Ids == 1..MaxStarts

\* The peripherals a Connection may be constructed for.  Two more values of
\* device, "fails_once" and "reliable", script the transport of RecoverySpec.
Devices == {"hrm", "no_hrm", "unreachable"}

LoopChannels == {"connecting", "connect_failed", "connected", "prepared", "connection_lost"}

NoPubs == [ch \in LoopChannels |-> 0]

\* Signal.task_gather(...): one publication on channel ch.
Publish(p, ch) == [p EXCEPT ![ch] = @ + 1]

\* A task that has not been created.
NoTask == [st |-> "none", pc |-> "init", dropped |-> FALSE, err |-> "none", pubs |-> NoPubs]

\* asyncio.create_task(self._reconnect_task_func()): scheduled, not yet run.
NewTask == [st |-> "active", pc |-> "init", dropped |-> FALSE, err |-> "none", pubs |-> NoPubs]

NoStarter == [pc |-> "unused", result |-> "none"]

\* Mutant of started: the property never reports a running task.
started_Never == FALSE

\* BaseBLEConnection.started
started == reconnect_task # 0

\* BaseBLEConnection.connected
connected == client # "none" /\ client = "up"

\* new_client(): a fresh handle, not connected.
new_client == "down"

\* Handles that report is_connected: the current one and the unreferenced ones
\* (leaked, or with a disconnect() in flight).
ConnectedHandles ==
    (IF client = "up" THEN 1 ELSE 0) + orphans.up + orphans.closing

\* Task.done()
Done(t) == t.st \in {"cancelled", "crashed"}

\* Mutant of Cancel: the task is not cancelled.
Cancel_Noop(t) == t

\* Task.cancel(): no effect on a finished task; otherwise CancelledError is
\* delivered at the task's current (or first) suspension point.
Cancel(t) == IF t.st = "active" THEN [t EXCEPT !.st = "cancelling"] ELSE t

\* No handle is unreferenced.
NoOrphans == [up |-> 0, closing |-> 0, gone |-> 0]

\* The unreferenced handles once one disconnect() in flight has returned: the
\* handle it was called on was still connected, or its link had dropped
\* meanwhile.  Which of the calls in flight returns first is up to the
\* transport.
Disconnected(o) ==
    {[o EXCEPT ![k] = @ - 1] : k \in {j \in {"closing", "gone"} : o[j] > 0}}

\* No call has been made from outside.
NoCalls ==
    [refused |-> 0, shutdowns |-> 0, closing |-> 0, shut_row |-> 0, probe |-> "none",
     ws |-> "none"]

\* The first unused start() coroutine slot.
NextSlot == Cardinality({i \in Ids : starter[i].pc # "unused"}) + 1

(***************************************************************************)
(* The channels and their handlers.  Signal is cookit.Signal, a library    *)
(* outside this repository; what it does is taken from the description of  *)
(* the event bus: a publication schedules one invocation per handler       *)
(* subscribed at the call and returns; the scheduled invocations run       *)
(* independently of each other, in no guaranteed order; the exception of a *)
(* handler goes to the error handler of the channel and nowhere else.      *)
(***************************************************************************)

\* The channels of a BLEHRSConnection (lines 30-36 and 155-157).
Channels == LoopChannels \cup {"starting", "shutting_down", "data_received"}

\* No handler is subscribed on any channel (Signal.slots = []).
NoSlots == [ch \in Channels |-> <<>>]

\* The invocations one publication schedules: one per handler registered at
\* the call, each with the arguments published; at is "scheduled" until the
\* handler has run up to an await of its own, and "awaiting" from then on.
Invocations(ch, arg) ==
    [k \in 1..Len(slots[ch]) |->
        [ch |-> ch, h |-> slots[ch][k], arg |-> arg, at |-> "scheduled"]]

\* Signal.task_gather(self, *args): schedule the handlers and return.
task_gather(ch, arg) ==
    /\ Len(pending) + Len(slots[ch]) <= MaxPending
    /\ pending' = pending \o Invocations(ch, arg)

\* A lifecycle publication: nothing else of the bus changes.  The handlers of
\* the code are passed the Connection; the invocations of the model are passed
\* the time of the publication, which no handler acts upon.
Publishes(ch) ==
    /\ task_gather(ch, <<notif.clock>>)
    /\ UNCHANGED <<slots, seen, stream, notif, first_conn_ok_fut>>

\* seen: log counts the lines the logging handler of each channel has written
\* (MaxLog lines are kept), ok
\* counts the completed runs of a handler that returns, bad the runs of a
\* handler that raises, excs the calls of sig_exc_handler (each up to MaxSeen).
\* stream: pc is "idle" (iter() not yet pulled), "pulling" (suspended in
\* queue.get()), "yielded" (suspended at the yield), "left" (suspended at the
\* yield, the consumer having stopped pulling) or "ended"; queue is the
\* asyncio.Queue, out what has been yielded, how the way the generator ended,
\* base the subscriber lists at the first pull, since the time of the first
\* pull, upto the time of the publication whose end marker ended the generator.
\* notif: frame is the value of the last notification, did what the callback
\* did with it ("skipped", "published", "raised"), reading what the decoder
\* returned, clock the number of notifications so far (the time read by
\* time.time()), published the number of data_received publications.
NoSeen == [log |-> NoPubs, ok |-> 0, bad |-> 0, excs |-> 0]

\* The number of lines the logging handlers have written.
Lines(sn) ==
    sn.log["connecting"] + sn.log["connect_failed"] + sn.log["connected"]
        + sn.log["prepared"] + sn.log["connection_lost"]

NoStream ==
    [pc |-> "idle", queue |-> <<>>, out |-> <<>>, how |-> "none", base |-> NoSlots,
     since |-> 0, upto |-> 0]

\* No value has been computed.
Nothing == [nothing |-> TRUE]

NoNotif ==
    [frame |-> <<>>, did |-> "none", reading |-> Nothing, clock |-> 0, published |-> 0]

(***************************************************************************)
(* The frame decoder                                                       *)
(***************************************************************************)

\* x & y on non-negative integers
RECURSIVE BitAnd(_, _)
BitAnd(x, y) ==
    IF x = 0 \/ y = 0 THEN 0
    ELSE (x % 2) * (y % 2) + 2 * BitAnd(x \div 2, y \div 2)

\* x | y on non-negative integers
RECURSIVE BitOr(_, _)
BitOr(x, y) ==
    IF x = 0 THEN y
    ELSE IF y = 0 THEN x
    ELSE (IF x % 2 = 1 \/ y % 2 = 1 THEN 1 ELSE 0) + 2 * BitOr(x \div 2, y \div 2)

\* x << n
ShiftLeft(x, n) == x * 2^n

\* The values of one element of a bytearray.
Bytes == 0..255

\* HRMData(heart_rate, sensor_contact); sensor_contact is "None", "True" or "False".
HRMData(heart_rate, sensor_contact) ==
    [heart_rate |-> heart_rate, sensor_contact |-> sensor_contact]

\* What an out-of-range subscript of a bytearray raises.
IndexError == [raised |-> "IndexError"]

Raised(r) == "raised" \in DOMAIN r

\* Mutant of parse_hrm_pkg: line 141 is missing, the high byte is not read.
parse_hrm_pkg_LowByteOnly(pkg) ==
    IF Len(pkg) < 1 THEN IndexError
    ELSE
    LET flag == pkg[1]
        sensor_contact_supported == BitAnd(flag, 4) # 0
        sensor_contact == IF sensor_contact_supported
                          THEN (IF BitAnd(flag, 2) # 0 THEN "True" ELSE "False")
                          ELSE "None"
    IN  IF Len(pkg) < 2 THEN IndexError
        ELSE HRMData(pkg[2], sensor_contact)

\* Mutant of parse_hrm_pkg: the masks of lines 136 and 137 are exchanged, bit 1
\* says whether the contact status is supported and bit 2 is the status.
parse_hrm_pkg_ContactBitsSwapped(pkg) ==
    IF Len(pkg) < 1 THEN IndexError
    ELSE
    LET flag == pkg[1]
        rate_is_u16 == BitAnd(flag, 1) # 0
        sensor_contact_supported == BitAnd(flag, 2) # 0
        sensor_contact == IF sensor_contact_supported
                          THEN (IF BitAnd(flag, 4) # 0 THEN "True" ELSE "False")
                          ELSE "None"
    IN  IF Len(pkg) < 2 THEN IndexError
        ELSE IF ~rate_is_u16 THEN HRMData(pkg[2], sensor_contact)
        ELSE IF Len(pkg) < 3 THEN IndexError
        ELSE HRMData(BitOr(pkg[2], ShiftLeft(pkg[3], 8)), sensor_contact)

\* parse_hrm_pkg(pkg), conn.py lines 133-143; pkg[k] of the code is pkg[k + 1] here.
parse_hrm_pkg(pkg) ==
    IF Len(pkg) < 1 THEN IndexError
    ELSE
    LET flag == pkg[1]
        rate_is_u16 == BitAnd(flag, 1) # 0
        sensor_contact_supported == BitAnd(flag, 4) # 0
        sensor_contact == IF sensor_contact_supported
                          THEN (IF BitAnd(flag, 2) # 0 THEN "True" ELSE "False")
                          ELSE "None"
    IN  IF Len(pkg) < 2 THEN IndexError
        ELSE IF ~rate_is_u16 THEN HRMData(pkg[2], sensor_contact)
        ELSE IF Len(pkg) < 3 THEN IndexError
        ELSE HRMData(BitOr(pkg[2], ShiftLeft(pkg[3], 8)), sensor_contact)

\* parse_val(val), data.py lines 12-22.
parse_val(val) ==
    IF Len(val) < 1 THEN IndexError
    ELSE
    LET flag == val[1]
        rate_is_u16 == BitAnd(flag, 1) # 0
        sensor_contact_supported == BitAnd(flag, 4) # 0
        sensor_contact == IF sensor_contact_supported
                          THEN (IF BitAnd(flag, 2) # 0 THEN "True" ELSE "False")
                          ELSE "None"
    IN  IF Len(val) < 2 THEN IndexError
        ELSE IF ~rate_is_u16 THEN HRMData(val[2], sensor_contact)
        ELSE IF Len(val) < 3 THEN IndexError
        ELSE HRMData(BitOr(val[2], ShiftLeft(val[3], 8)), sensor_contact)

Init ==
    /\ device \in Devices
    /\ slots = NoSlots
    /\ pending = <<>>
    /\ seen = NoSeen
    /\ stream = NoStream
    /\ notif = NoNotif
    /\ first_conn_ok_fut = "none"
    /\ client = "none"
    /\ orphans = NoOrphans
    /\ reconnect_task = 0
    /\ task = [i \in Ids |-> NoTask]
    /\ starter = [i \in Ids |-> NoStarter]
    /\ pubs = [starting |-> 0, shutting_down |-> 0]
    /\ api = NoCalls

(***************************************************************************)
(* The supervising loop: _reconnect_task_func, one action per stretch of   *)
(* code between two awaits.                                                *)
(***************************************************************************)

\* A task can take a step of its own code only while no cancellation is pending.
Runs(i) == task[i].st = "active"

\* Lines 61-69: the top of the loop up to `await self.client.connect()`.
\* Entered when the task first runs and when a retry sleep (line 72 or 83) ends.
LoopIterate(i) ==
    /\ Runs(i)
    /\ task[i].pc \in {"init", "retry_wait", "lost_wait", "reset"}
    /\ IF task[i].pc # "reset" /\ connected
       THEN \* lines 62-63: await self.client.disconnect(), which has closed the
            \* handle when the task resumes at line 64
            /\ task' = [task EXCEPT ![i].pc = "reset"]
            /\ UNCHANGED <<client, orphans, bus>>
       ELSE \* line 64, then 66-69 (a new handle is never connected)
            /\ client' = new_client
            /\ orphans' = orphans
            /\ task' = [task EXCEPT ![i] =
                    [@ EXCEPT !.pc = "connect", !.dropped = FALSE,
                              !.pubs = Publish(NoPubs, "connecting")]]
            /\ Publishes("connecting")
    /\ UNCHANGED <<device, reconnect_task, starter, pubs, api>>

\* What connect() can do on this peripheral: TRUE is success, FALSE an Exception.
\* A "fails_once" peripheral refuses the first attempt and is "reliable" from
\* then on: every later attempt succeeds.
ConnectOutcomes ==
    IF device \in {"unreachable", "fails_once"} THEN {FALSE}
    ELSE IF device = "reliable" THEN {TRUE}
    ELSE {TRUE, FALSE}

\* The peripheral after a connect attempt.
Attempted == IF device = "fails_once" THEN "reliable" ELSE device

\* Mutant of ConnectFailed: the exception of connect() is not caught.
ConnectFailed_Uncaught(t) ==
    [t EXCEPT !.st = "crashed", !.err = "ConnectError"]

\* Lines 70-73: connect() raised; publish connect_failed and sleep retry_interval.
ConnectFailed(t) ==
    [t EXCEPT !.pc = "retry_wait", !.pubs = Publish(@, "connect_failed")]

\* BLEHRSConnection._prepare, lines 168-170: the characteristic lookup.
HasHRMChar == device \in {"hrm", "fails_once", "reliable"}

\* Mutant of ConnectSucceeded: _prepare does not test the looked-up characteristic.
ConnectSucceeded_NoCheck(t) ==
    [t EXCEPT !.pc = "prepare", !.pubs = Publish(@, "connected")]

\* Lines 74-76 with _prepare up to its await: publish connected, look the
\* characteristic up, raise RuntimeError (which ends the task) or await start_notify.
ConnectSucceeded(t) ==
    IF HasHRMChar
    THEN [t EXCEPT !.pc = "prepare", !.pubs = Publish(@, "connected")]
    ELSE [t EXCEPT !.pc = "prepare", !.pubs = Publish(@, "connected"),
                   !.st = "crashed", !.err = "UnsupportedDevice"]

\* Line 69 resolves.
ConnectResolve(i) ==
    /\ Runs(i)
    /\ task[i].pc = "connect"
    /\ \E ok \in ConnectOutcomes :
         IF ok
         THEN /\ client' = "up"
              /\ task' = [task EXCEPT ![i] = ConnectSucceeded(@)]
              /\ Publishes("connected")
         ELSE /\ client' = client
              /\ task' = [task EXCEPT ![i] = ConnectFailed(@)]
              /\ Publishes("connect_failed")
    /\ device' = Attempted
    /\ UNCHANGED <<orphans, reconnect_task, starter, pubs, api>>

\* Lines 171, 77, 79: start_notify returns, publish prepared, wait for loss.
Prepared(t) == [t EXCEPT !.pc = "wait", !.pubs = Publish(@, "prepared")]

\* Mutant of PrepareResolve: line 77 is missing, prepared is not published.
PrepareResolve_NotPublished(i) ==
    /\ Runs(i)
    /\ task[i].pc = "prepare"
    /\ task' = [task EXCEPT ![i].pc = "wait"]
    /\ UNCHANGED <<device, client, orphans, reconnect_task, starter, pubs, api>>
    /\ UNCHANGED bus

\* start_notify returns (line 171); _prepare raises only in lines 169-170.
PrepareResolve(i) ==
    /\ Runs(i)
    /\ task[i].pc = "prepare"
    /\ task' = [task EXCEPT ![i] = Prepared(@)]
    /\ UNCHANGED <<device, client, orphans, reconnect_task, starter, pubs, api>>
    /\ Publishes("prepared")

\* _disconnected_callback, lines 46-48: set() wakes the tasks that are waiting
\* on the event at this moment; clear() leaves nothing behind for later waiters.
DisconnectedCallback(t) ==
    IF t.st = "active" /\ t.pc = "wait" THEN [t EXCEPT !.pc = "woken"] ELSE t

\* The end markers on their way to the consumer of iter(): those in its queue
\* and those the scheduled invocations of its _lost will put.
EndMarkers ==
    Cardinality({k \in 1..Len(stream.queue) : Len(stream.queue[k]) = 1})
        + Cardinality({k \in 1..Len(pending) : pending[k].h = "lost"})

\* The link of the current handle drops and the transport reports it.  The
\* links drop while the consumer of iter() has fewer than MaxMarkers end
\* markers on their way to it.
LinkDrop ==
    /\ client = "up"
    /\ EndMarkers < MaxMarkers
    /\ client' = "down"
    /\ task' = [i \in Ids |->
                 LET t == DisconnectedCallback(task[i])
                 IN  IF i = reconnect_task /\ task[i].st = "active"
                     THEN [t EXCEPT !.dropped = TRUE] ELSE t]
    /\ UNCHANGED <<device, orphans, reconnect_task, starter, pubs, api>>
    /\ UNCHANGED bus

\* The link of a handle that self.client no longer references drops.  Every
\* handle is created with the same callback (new_client, lines 50-55), which
\* does not look at the handle that reports (lines 46-48): the task waiting at
\* line 79 is woken although the handle of its own iteration is connected.
OrphanDrop ==
    /\ EndMarkers < MaxMarkers
    /\ \E k \in {"up", "closing"} :
         /\ orphans[k] > 0
         /\ orphans' = IF k = "up" THEN [orphans EXCEPT !.up = @ - 1]
                       ELSE [orphans EXCEPT !.closing = @ - 1, !.gone = @ + 1]
    /\ task' = [i \in Ids |-> DisconnectedCallback(task[i])]
    /\ UNCHANGED <<device, client, reconnect_task, starter, pubs, api>>
    /\ UNCHANGED bus

\* Mutant of LoopLost: line 80 is missing, client keeps the lost handle.
LoopLost_KeepsClient(i) ==
    /\ task[i].st = "active"
    /\ task[i].pc = "woken"
    /\ task' = [task EXCEPT ![i] =
            [@ EXCEPT !.pc = "lost_wait", !.pubs = Publish(@, "connection_lost")]]
    /\ UNCHANGED <<device, client, orphans, reconnect_task, starter, pubs, api>>
    /\ Publishes("connection_lost")

\* Lines 80-83: the wait returned; clear client, publish connection_lost, sleep.
LoopLost(i) ==
    /\ Runs(i)
    /\ task[i].pc = "woken"
    /\ client' = "none"
    /\ orphans' = IF client = "up" THEN [orphans EXCEPT !.up = @ + 1] ELSE orphans
    /\ task' = [task EXCEPT ![i] =
            [@ EXCEPT !.pc = "lost_wait", !.pubs = Publish(@, "connection_lost")]]
    /\ UNCHANGED <<device, reconnect_task, starter, pubs, api>>
    /\ Publishes("connection_lost")

\* CancelledError is thrown into the task at the await it is suspended in; the
\* loop catches only Exception, so the task ends there.
TaskCancelled(i) ==
    /\ task[i].st = "cancelling"
    /\ task' = [task EXCEPT ![i].st = "cancelled"]
    /\ UNCHANGED <<device, client, orphans, reconnect_task, starter, pubs, api>>
    /\ UNCHANGED bus

(***************************************************************************)
(* start(), shutdown(), __aenter__                                         *)
(***************************************************************************)

\* Mutant of ShutdownBody: the disconnect() of lines 106-107 does not close
\* the handle, which stays connected and unreferenced.
ShutdownBody_NoDisconnect ==
    /\ pubs' = [pubs EXCEPT !.shutting_down = @ + 1]
    /\ task' = IF reconnect_task # 0
               THEN [task EXCEPT ![reconnect_task] = Cancel(@)]
               ELSE task
    /\ reconnect_task' = 0
    /\ client' = "none"
    /\ orphans' = IF client = "up"
                  THEN [orphans EXCEPT !.up = @ + 1, !.closing = @ + 1]
                  ELSE orphans
    /\ Publishes("shutting_down")

\* Mutant of ShutdownBody: line 98 publishes connection_lost.
ShutdownBody_PublishesLost ==
    /\ pubs' = [pubs EXCEPT !.shutting_down = @ + 1]
    /\ task' = IF reconnect_task # 0
               THEN [task EXCEPT ![reconnect_task] = Cancel(@)]
               ELSE task
    /\ reconnect_task' = 0
    /\ client' = "none"
    /\ orphans' = IF client = "up"
                  THEN [orphans EXCEPT !.closing = @ + 1]
                  ELSE orphans
    /\ Publishes("connection_lost")

\* Mutant of ShutdownBody: line 102 is missing, the cancelled task stays
\* referenced.
ShutdownBody_KeepsTaskRef ==
    /\ pubs' = [pubs EXCEPT !.shutting_down = @ + 1]
    /\ task' = IF reconnect_task # 0
               THEN [task EXCEPT ![reconnect_task] = Cancel(@)]
               ELSE task
    /\ reconnect_task' = reconnect_task
    /\ client' = "none"
    /\ orphans' = IF client = "up"
                  THEN [orphans EXCEPT !.closing = @ + 1]
                  ELSE orphans
    /\ Publishes("shutting_down")

\* shutdown(), lines 98-107 up to `await client.disconnect()`: publish
\* shutting_down, cancel and forget the task, take the handle out of
\* self.client and, if it is connected, start disconnecting it.
ShutdownBody ==
    /\ pubs' = [pubs EXCEPT !.shutting_down = @ + 1]
    /\ task' = IF reconnect_task # 0
               THEN [task EXCEPT ![reconnect_task] = Cancel(@)]
               ELSE task
    /\ reconnect_task' = 0
    /\ client' = "none"
    /\ orphans' = IF client = "up"
                  THEN [orphans EXCEPT !.closing = @ + 1]
                  ELSE orphans
    /\ Publishes("shutting_down")

\* One more shutdown() since the last successful start() (counted up to 2).
ShutRow == IF api.shut_row < 2 THEN api.shut_row + 1 ELSE 2

\* shutdown() called from outside (also __aexit__, line 114).
Shutdown ==
    /\ api.shutdowns < MaxShutdowns
    /\ ShutdownBody
    /\ api' = [api EXCEPT !.shutdowns = @ + 1,
                          !.closing = @ + (IF client = "up" THEN 1 ELSE 0),
                          !.shut_row = ShutRow]
    /\ UNCHANGED <<device, starter>>

\* Line 107 of a shutdown() called from outside returns.
ShutdownReturn ==
    /\ api.closing > 0
    /\ api' = [api EXCEPT !.closing = @ - 1]
    /\ orphans' \in Disconnected(orphans)
    /\ UNCHANGED <<device, client, reconnect_task, task, starter, pubs>>
    /\ UNCHANGED bus

\* start(), lines 86-93 up to `await self._reconnect_task`, in coroutine i.
StartBody(i) ==
    /\ ~started
    /\ i = NextSlot
    /\ pubs' = [pubs EXCEPT !.starting = @ + 1]
    /\ task' = [task EXCEPT ![i] = NewTask]
    /\ reconnect_task' = i
    /\ starter' = [starter EXCEPT ![i] = [pc |-> "await_task", result |-> "none"]]
    /\ UNCHANGED <<device, client, orphans>>
    /\ Publishes("starting")

\* Lines 86-87: start() on a started Connection raises RuntimeError.
StartRejected ==
    /\ started
    /\ api' = [api EXCEPT !.refused = 1 - @]
    /\ UNCHANGED <<device, client, orphans, reconnect_task, task, starter, pubs>>
    /\ UNCHANGED bus

\* start() called from outside.
Start(i) ==
    /\ StartBody(i)
    /\ api' = [api EXCEPT !.shut_row = 0]

\* __aenter__, lines 110-111: start() unless already started.
AEnter(i) ==
    IF started
    THEN UNCHANGED vars
    ELSE /\ StartBody(i)
         /\ api' = [api EXCEPT !.shut_row = 0]

\* What `await self._reconnect_task` raises in start() once the task is done.
TaskError(t) == IF t.st = "crashed" THEN t.err ELSE "CancelledError"

\* Lines 93-95: the awaited task is done, the await raises, and the finally
\* clause runs shutdown() up to its await.
StartFinally(i) ==
    /\ starter[i].pc = "await_task"
    /\ Done(task[i])
    /\ ShutdownBody
    /\ starter' = [starter EXCEPT ![i] =
            [pc |-> IF client = "up" THEN "closing" ELSE "done",
             result |-> TaskError(task[i])]]
    /\ api' = [api EXCEPT !.shut_row = ShutRow]
    /\ UNCHANGED device

\* Line 107 of the shutdown() run by start()'s finally returns; start() raises.
StartReturn(i) ==
    /\ starter[i].pc = "closing"
    /\ starter' = [starter EXCEPT ![i].pc = "done"]
    /\ orphans' \in Disconnected(orphans)
    /\ UNCHANGED <<device, client, reconnect_task, task, pubs, api>>
    /\ UNCHANGED bus

TaskStep(i) ==
    \/ LoopIterate(i)
    \/ ConnectResolve(i)
    \/ PrepareResolve(i)
    \/ LoopLost(i)
    \/ TaskCancelled(i)

Next ==
    \/ \E i \in Ids : LoopIterate(i)
    \/ \E i \in Ids : ConnectResolve(i)
    \/ \E i \in Ids : PrepareResolve(i)
    \/ \E i \in Ids : LoopLost(i)
    \/ \E i \in Ids : TaskCancelled(i)
    \/ LinkDrop
    \/ OrphanDrop
    \/ \E i \in Ids : Start(i)
    \/ StartRejected
    \/ \E i \in Ids : AEnter(i)
    \/ \E i \in Ids : StartFinally(i)
    \/ \E i \in Ids : StartReturn(i)
    \/ Shutdown
    \/ ShutdownReturn

Spec == Init /\ [][Next]_vars

\* The event loop runs every coroutine that is ready: a task whose await has
\* resolved (or been cancelled), a start() whose task is done, a disconnect()
\* in flight.  Calls from outside and link drops are under no obligation.
Fairness ==
    /\ \A i \in Ids : WF_vars(TaskStep(i))
    /\ \A i \in Ids : WF_vars(StartFinally(i))
    /\ \A i \in Ids : WF_vars(StartReturn(i))
    /\ WF_vars(ShutdownReturn)

FairSpec == Init /\ [][Next]_vars /\ Fairness

\* A Connection for the peripheral whose connect() always fails.
RetryInit ==
    /\ Init
    /\ device = "unreachable"

\* What can happen on that peripheral: no handle ever connects, so there is
\* no preparation step, no link to drop and no disconnect() to wait for.
RetryNext ==
    \/ \E i \in Ids : LoopIterate(i)
    \/ \E i \in Ids : ConnectResolve(i)
    \/ \E i \in Ids : TaskCancelled(i)
    \/ \E i \in Ids : Start(i)
    \/ StartRejected
    \/ \E i \in Ids : AEnter(i)
    \/ \E i \in Ids : StartFinally(i)
    \/ Shutdown

\* The event loop runs the loop task and the start() whose task is done.
RetryFairness ==
    /\ \A i \in Ids : WF_vars(TaskStep(i))
    /\ \A i \in Ids : WF_vars(StartFinally(i))

RetrySpec == RetryInit /\ [][RetryNext]_vars /\ RetryFairness

(***************************************************************************)
(* Telemetry: the notification callback, the scheduled handlers and the    *)
(* generator of iter()                                                     *)
(***************************************************************************)

\* The notification values the peripheral sends: of length 0, of length 1, of
\* length 2 with the 16-bit flag, and one well-formed 16-bit frame.
NotifyFrames == {<<>>, <<0>>, <<1, 60>>, <<5, 44, 1>>}

\* The transport invokes the notification callback for a handle while the
\* handle is connected; start_notify is issued in the step that sees connect()
\* succeed on a peripheral with the characteristic.
Notifying == HasHRMChar /\ ConnectedHandles > 0

\* Mutant of NotifyCallback: lines 160-161 are missing, the value is decoded
\* and published whether or not a handler is subscribed.
NotifyCallback_NoSlotsTest(val) ==
    LET t == notif.clock + 1
        data == parse_hrm_pkg(val)
    IN  /\ Notifying
        /\ notif.clock < MaxNotifs
        /\ IF Raised(data)
           THEN /\ notif' = [notif EXCEPT !.frame = val, !.did = "raised",
                                          !.reading = data, !.clock = t]
                /\ pending' = pending
           ELSE /\ notif' = [notif EXCEPT !.frame = val, !.did = "published",
                                          !.reading = data, !.clock = t,
                                          !.published = @ + 1]
                /\ task_gather("data_received", <<data, t>>)
        /\ UNCHANGED <<device, client, orphans, reconnect_task, task, starter, pubs,
                       api, slots, seen, stream, first_conn_ok_fut>>

\* _notify_callback_func(_, val), lines 159-164: return if no handler is
\* subscribed; otherwise read the time, decode, and publish data_received.
\* An exception of the decoder is raised to the caller of the callback.
NotifyCallback(val) ==
    LET t == notif.clock + 1
        data == parse_hrm_pkg(val)
    IN  /\ Notifying
        /\ notif.clock < MaxNotifs
        /\ IF slots["data_received"] = <<>>
           THEN /\ notif' = [notif EXCEPT !.frame = val, !.did = "skipped",
                                          !.reading = Nothing, !.clock = t]
                /\ pending' = pending
           ELSE IF Raised(data)
           THEN /\ notif' = [notif EXCEPT !.frame = val, !.did = "raised",
                                          !.reading = data, !.clock = t]
                /\ pending' = pending
           ELSE /\ notif' = [notif EXCEPT !.frame = val, !.did = "published",
                                          !.reading = data, !.clock = t,
                                          !.published = @ + 1]
                /\ task_gather("data_received", <<data, t>>)
        /\ UNCHANGED <<device, client, orphans, reconnect_task, task, starter, pubs,
                       api, slots, seen, stream, first_conn_ok_fut>>

\* A count that stops at MaxSeen.
Counted(n) == IF n < MaxSeen THEN n + 1 ELSE n

\* What queue.put(None) puts: the end marker, here with the time of the
\* publication that it stands for.
None(at) == <<at>>

\* x is None
IsNone(x) == Len(x) = 1

\* Mutant of Put: the element is put at the front of the queue.
Put_Front(x) ==
    IF stream.pc = "ended" THEN stream ELSE [stream EXCEPT !.queue = <<x>> \o @]

\* queue.put(x) in _recv and _lost (lines 181 and 185).  The queue of a
\* generator that has ended is referenced by nothing but the handlers.
Put(x) ==
    IF stream.pc = "ended" THEN stream ELSE [stream EXCEPT !.queue = Append(@, x)]

\* sig_exc_handler(sig, e), main.py lines 13-15: log the error and return.
sig_exc_handler(sn) == [sn EXCEPT !.excs = Counted(@)]

\* Future.set_result(v), as _prepared and _failed call it (main.py lines 90
\* and 94): the result of a pending future is set; on a future that is done
\* the call raises InvalidStateError and the result stays.
set_result(fut, v) == IF fut = "pending" THEN v ELSE fut

\* What the body of the handler of invocation inv leaves behind.  "log" is a
\* logging handler of construct_conn (main.py lines 55-73); "ok" is a
\* subscriber that returns and "bad" one that raises; "ws" is a handler of the
\* websocket endpoint (app.py lines 67-85), whose effect is on the socket;
\* "recv" and "lost" are _recv and _lost of iter() (conn.py lines 179-185);
\* "_prepared" and "_failed" are the two handlers of construct_available_conn
\* (main.py lines 88-94).
Handled(inv) ==
    [seen |->
        CASE inv.h = "log" ->
                IF Lines(seen) < MaxLog THEN [seen EXCEPT !.log[inv.ch] = @ + 1]
                ELSE seen
          [] inv.h = "ok" -> [seen EXCEPT !.ok = Counted(@)]
          [] inv.h = "bad" -> [seen EXCEPT !.bad = Counted(@)]
          [] OTHER -> seen,
     stream |->
        CASE inv.h = "recv" -> Put(inv.arg)
          [] inv.h = "lost" -> Put(None(inv.arg[1]))
          [] OTHER -> stream,
     fut |->
        CASE inv.h = "_prepared" -> set_result(first_conn_ok_fut, "True")
          [] inv.h = "_failed" -> set_result(first_conn_ok_fut, "False")
          [] OTHER -> first_conn_ok_fut]

\* Whether the body of the handler raises.  set_result raises on a future that
\* is done; ws.send_text() and ws.close() raise when the client has gone,
\* which is up to the client.
Raises(inv) ==
    CASE inv.h = "bad" -> {TRUE}
      [] inv.h \in {"_prepared", "_failed"} -> {first_conn_ok_fut # "pending"}
      [] inv.h = "ws" -> BOOLEAN
      [] OTHER -> {FALSE}

\* The sequence without its k-th element.
Without(seq, k) == SubSeq(seq, 1, k - 1) \o SubSeq(seq, k + 1, Len(seq))

\* Mutant of HandlerRuns: the exception of a handler is not passed to the
\* channel's sig_exc_handler.
HandlerRuns_ErrorLost(k) ==
    LET inv == pending[k]
    IN  /\ inv.h = "ws" => inv.at = "awaiting"
        /\ pending' = Without(pending, k)
        /\ seen' = Handled(inv).seen
        /\ stream' = Handled(inv).stream
        /\ first_conn_ok_fut' = Handled(inv).fut

\* The k-th scheduled invocation runs to its end (a handler of the websocket
\* endpoint from its await on).  The exception of the handler goes to the
\* channel's sig_exc_handler and nowhere else; the other invocations stay
\* scheduled.
HandlerRuns(k) ==
    LET inv == pending[k]
    IN  /\ inv.h = "ws" => inv.at = "awaiting"
        /\ pending' = Without(pending, k)
        /\ \E raised \in Raises(inv) :
                seen' = IF raised THEN sig_exc_handler(Handled(inv).seen)
                        ELSE Handled(inv).seen
        /\ stream' = Handled(inv).stream
        /\ first_conn_ok_fut' = Handled(inv).fut

\* The event loop runs one of the scheduled invocations; which one is not
\* determined by the order of the publications.
RunHandler ==
    /\ \E k \in 1..Len(pending) : HandlerRuns(k)
    /\ UNCHANGED <<device, client, orphans, reconnect_task, task, starter, pubs, api,
                   slots, notif>>

\* A scheduled handler of the websocket endpoint runs up to its await of
\* ws.send_text() or ws.close() (app.py lines 69, 73, 78 and 82).
WsHandlerAwaits ==
    /\ \E k \in 1..Len(pending) :
            /\ pending[k].h = "ws"
            /\ pending[k].at = "scheduled"
            /\ pending' = [pending EXCEPT ![k].at = "awaiting"]
    /\ UNCHANGED <<device, client, orphans, reconnect_task, task, starter, pubs, api,
                   slots, seen, stream, notif, first_conn_ok_fut>>

\* list.remove(h): the list without its first h.
Remove(list, h) ==
    LET k == CHOOSE j \in 1..Len(list) :
                 list[j] = h /\ \A m \in 1..(j - 1) : list[m] # h
    IN  SubSeq(list, 1, k - 1) \o SubSeq(list, k + 1, Len(list))

\* Mutant of Unsubscribed: line 195 is missing, _lost stays subscribed.
Unsubscribed_KeepsLost ==
    [slots EXCEPT !["data_received"] = Remove(@, "recv")]

\* The finally clause of iter(), lines 193-195.
Unsubscribed ==
    [slots EXCEPT !["data_received"] = Remove(@, "recv"),
                  !["connection_lost"] = Remove(@, "lost")]

\* The first pull on iter(), lines 174-191: return if not connected; otherwise
\* create the queue, subscribe _recv and _lost and wait in queue.get().
StreamOpen ==
    /\ stream.pc = "idle"
    /\ IF ~connected
       THEN /\ stream' = [stream EXCEPT !.pc = "ended", !.how = "not_connected",
                                        !.base = slots]
            /\ slots' = slots
       ELSE /\ stream' = [stream EXCEPT !.pc = "pulling", !.base = slots,
                                        !.since = notif.clock]
            /\ slots' = [slots EXCEPT !["data_received"] = Append(@, "recv"),
                                      !["connection_lost"] = Append(@, "lost")]
    /\ UNCHANGED <<device, client, orphans, reconnect_task, task, starter, pubs, api,
                   pending, seen, notif, first_conn_ok_fut>>

\* Mutant of QueueGot: lines 190-191 are missing, None is yielded like a
\* reading.
QueueGot_NoneYielded ==
    /\ stream' = [stream EXCEPT !.pc = "yielded", !.queue = Tail(@),
                                !.out = Append(@, Head(stream.queue))]
    /\ slots' = slots

\* Lines 189-192 once queue.get() has an element x to return: None ends the
\* generator through the finally clause, anything else is yielded.
QueueGot ==
    IF IsNone(Head(stream.queue))
    THEN /\ stream' = [stream EXCEPT !.pc = "ended", !.how = "marker",
                                     !.queue = <<>>,
                                     !.upto = Head(stream.queue)[1]]
         /\ slots' = Unsubscribed
    ELSE /\ stream' = [stream EXCEPT !.pc = "yielded", !.queue = Tail(@),
                                     !.out = Append(@, Head(stream.queue))]
         /\ slots' = slots

\* The generator is suspended in queue.get() (line 189) and an element has
\* been put: the generator resumes with it.
StreamGet ==
    /\ stream.pc = "pulling"
    /\ stream.queue # <<>>
    /\ QueueGot
    /\ UNCHANGED <<device, client, orphans, reconnect_task, task, starter, pubs, api,
                   pending, seen, notif, first_conn_ok_fut>>

\* The consumer pulls the next element: the generator resumes after the yield
\* and calls queue.get(), which returns at once when the queue holds an
\* element and suspends the generator when it is empty.
StreamPull ==
    /\ stream.pc = "yielded"
    /\ IF stream.queue = <<>>
       THEN /\ stream' = [stream EXCEPT !.pc = "pulling"]
            /\ slots' = slots
       ELSE QueueGot
    /\ UNCHANGED <<device, client, orphans, reconnect_task, task, starter, pubs, api,
                   pending, seen, notif, first_conn_ok_fut>>

\* The consumer stops pulling (it leaves its loop, or never asks for the next
\* element): the generator stays suspended at the yield of line 192, with
\* _recv and _lost subscribed.
StreamAbandon ==
    /\ stream.pc = "yielded"
    /\ stream' = [stream EXCEPT !.pc = "left"]
    /\ UNCHANGED <<device, client, orphans, reconnect_task, task, starter, pubs, api,
                   slots, pending, seen, notif, first_conn_ok_fut>>

\* The generator is closed: by aclose(), by the event loop when the generator
\* the consumer has dropped is finalised, or by the cancellation of a pending
\* pull.  The exception is thrown in at the suspension point and the finally
\* clause (lines 193-195) runs.
StreamClose ==
    /\ stream.pc \in {"pulling", "yielded", "left"}
    /\ stream' = [stream EXCEPT !.pc = "ended", !.how = "abandoned", !.queue = <<>>]
    /\ slots' = Unsubscribed
    /\ UNCHANGED <<device, client, orphans, reconnect_task, task, starter, pubs, api,
                   pending, seen, notif, first_conn_ok_fut>>

\* start() has been called on a new Connection (lines 86-93).
Started ==
    /\ client = "none"
    /\ orphans = NoOrphans
    /\ reconnect_task = 1
    /\ task = [i \in Ids |-> IF i = 1 THEN NewTask ELSE NoTask]
    /\ starter = [i \in Ids |-> IF i = 1 THEN [pc |-> "await_task", result |-> "none"]
                                 ELSE NoStarter]
    /\ pubs = [starting |-> 1, shutting_down |-> 0]
    /\ api = NoCalls

\* The handlers subscribed before start(): none, one that returns, or one that
\* raises followed by one that returns, on data_received and on connected.
Subscribers == {<<>>, <<"ok">>, <<"bad", "ok">>}

\* The notification callback and the handlers of a started Connection.
NotifyInit ==
    /\ device = "hrm"
    /\ Started
    /\ \E hs \in Subscribers :
            slots = [NoSlots EXCEPT !["data_received"] = hs, !["connected"] = hs]
    /\ pending = <<>>
    /\ seen = NoSeen
    /\ stream = NoStream
    /\ notif = NoNotif
    /\ first_conn_ok_fut = "none"

NotifyNext ==
    \/ \E i \in Ids : LoopIterate(i)
    \/ \E i \in Ids : ConnectResolve(i)
    \/ \E i \in Ids : PrepareResolve(i)
    \/ \E i \in Ids : LoopLost(i)
    \/ LinkDrop
    \/ \E val \in NotifyFrames : NotifyCallback(val)
    \/ RunHandler

NotifySpec == NotifyInit /\ [][NotifyNext]_vars

\* The well-formed notification values sent while a generator of iter() is
\* consumed.
StreamFrames == {<<0, 75>>, <<5, 44, 1>>}

\* The handlers of one websocket client (app.py lines 67-85): _prepared,
\* _lost, _data and _shutting_down, each "ws" on its channel.
StreamSlots ==
    [ch \in Channels |->
        IF ch \in {"prepared", "connection_lost", "data_received", "shutting_down"}
        THEN <<"ws">> ELSE <<>>]

\* The websocket endpoint, app.py lines 58-62: a client connects to a started
\* Connection and the endpoint suspends in ws.accept() (on a Connection that
\* is not started the socket is closed and nothing is subscribed).
WsAccept ==
    /\ api.ws = "none"
    /\ started
    /\ api' = [api EXCEPT !.ws = "accepted"]
    /\ UNCHANGED <<device, client, orphans, reconnect_task, task, starter, pubs>>
    /\ UNCHANGED bus

\* Lines 63-65: ws.accept() has returned; the endpoint reads
\* _curr_conn.connected for the state message and suspends in ws.send_text().
WsSendState ==
    /\ api.ws = "accepted"
    /\ api' = [api EXCEPT !.ws = "sending"]
    /\ UNCHANGED <<device, client, orphans, reconnect_task, task, starter, pubs>>
    /\ UNCHANGED bus

\* Line 63 raises: the client has gone before the state message was sent, and
\* the endpoint ends with nothing subscribed.
WsSendFailed ==
    /\ api.ws = "sending"
    /\ api' = [api EXCEPT !.ws = "closed"]
    /\ UNCHANGED <<device, client, orphans, reconnect_task, task, starter, pubs>>
    /\ UNCHANGED bus

\* Lines 67-89: ws.send_text() has returned; the four handlers are subscribed
\* and the endpoint waits for the client in ws.receive_text().
WsSubscribe ==
    /\ api.ws = "sending"
    /\ api' = [api EXCEPT !.ws = "open"]
    /\ slots' = [ch \in Channels |-> slots[ch] \o StreamSlots[ch]]
    /\ UNCHANGED <<device, client, orphans, reconnect_task, task, starter, pubs,
                   pending, seen, stream, notif, first_conn_ok_fut>>

\* Lines 90-96: the client has gone (or _shutting_down has closed the
\* socket); the finally clause removes the four handlers.
WsFinally ==
    /\ api.ws = "open"
    /\ api' = [api EXCEPT !.ws = "closed"]
    /\ slots' = [ch \in Channels |->
                    IF StreamSlots[ch] = <<>> THEN slots[ch] ELSE Remove(slots[ch], "ws")]
    /\ UNCHANGED <<device, client, orphans, reconnect_task, task, starter, pubs,
                   pending, seen, stream, notif, first_conn_ok_fut>>

\* A started Connection on whose channels nothing is subscribed yet: websocket
\* clients connect to it and its iter() is consumed.
StreamInit ==
    /\ device = "hrm"
    /\ Started
    /\ slots = NoSlots
    /\ pending = <<>>
    /\ seen = NoSeen
    /\ stream = NoStream
    /\ notif = NoNotif
    /\ first_conn_ok_fut = "none"

StreamNext ==
    \/ \E i \in Ids : LoopIterate(i)
    \/ \E i \in Ids : ConnectResolve(i)
    \/ \E i \in Ids : PrepareResolve(i)
    \/ \E i \in Ids : LoopLost(i)
    \/ LinkDrop
    \/ \E val \in StreamFrames : NotifyCallback(val)
    \/ RunHandler
    \/ StreamOpen
    \/ StreamGet
    \/ StreamPull
    \/ StreamAbandon
    \/ StreamClose

StreamSpec == StreamInit /\ [][StreamNext]_vars

\* The notification value sent around a shutdown() and while a websocket
\* client is served.
ClosingFrames == {<<0, 75>>}

\* The peripheral sends its first notification.
FirstNotification ==
    /\ notif.clock = 0
    /\ \E val \in ClosingFrames : NotifyCallback(val)

\* A websocket client is served while iter() is consumed and the peripheral
\* sends one notification.
EndpointNext ==
    \/ \E i \in Ids : LoopIterate(i)
    \/ \E i \in Ids : ConnectResolve(i)
    \/ \E i \in Ids : PrepareResolve(i)
    \/ \E i \in Ids : LoopLost(i)
    \/ LinkDrop
    \/ FirstNotification
    \/ RunHandler
    \/ WsHandlerAwaits
    \/ StreamOpen
    \/ StreamGet
    \/ StreamPull
    \/ StreamAbandon
    \/ StreamClose
    \/ WsAccept
    \/ WsSendState
    \/ WsSendFailed
    \/ WsSubscribe
    \/ WsFinally

EndpointSpec == StreamInit /\ [][EndpointNext]_vars

\* A websocket client is served and shutdown() is called.
ServingNext ==
    \/ \E i \in Ids : LoopIterate(i)
    \/ \E i \in Ids : ConnectResolve(i)
    \/ \E i \in Ids : PrepareResolve(i)
    \/ \E i \in Ids : LoopLost(i)
    \/ \E i \in Ids : TaskCancelled(i)
    \/ LinkDrop
    \/ OrphanDrop
    \/ \E i \in Ids : StartFinally(i)
    \/ Shutdown
    \/ ShutdownReturn
    \/ RunHandler
    \/ WsHandlerAwaits
    \/ WsAccept
    \/ WsSendState
    \/ WsSendFailed
    \/ WsSubscribe
    \/ WsFinally

ServingSpec == StreamInit /\ [][ServingNext]_vars

\* The logging handlers of construct_conn (main.py lines 55-73), one on each
\* channel the loop publishes on.
LoggedSlots == [ch \in Channels |-> IF ch \in LoopChannels THEN <<"log">> ELSE <<>>]

\* A started Connection built by construct_conn, on a peripheral whose first
\* connect() fails and whose later ones succeed.
RecoveryInit ==
    /\ device = "fails_once"
    /\ Started
    /\ slots = LoggedSlots
    /\ pending = <<>>
    /\ seen = NoSeen
    /\ stream = NoStream
    /\ notif = NoNotif
    /\ first_conn_ok_fut = "none"

RecoveryNext ==
    \/ \E i \in Ids : LoopIterate(i)
    \/ \E i \in Ids : ConnectResolve(i)
    \/ \E i \in Ids : PrepareResolve(i)
    \/ \E i \in Ids : LoopLost(i)
    \/ \E i \in Ids : TaskCancelled(i)
    \/ LinkDrop
    \/ OrphanDrop
    \/ \E i \in Ids : StartFinally(i)
    \/ Shutdown
    \/ ShutdownReturn
    \/ RunHandler

\* The event loop runs the loop task, the start() whose task is done, a
\* disconnect() in flight and every scheduled invocation.
RecoveryFairness ==
    /\ \A i \in Ids : WF_vars(TaskStep(i))
    /\ \A i \in Ids : WF_vars(StartFinally(i))
    /\ WF_vars(ShutdownReturn)
    /\ WF_vars(RunHandler)

RecoverySpec == RecoveryInit /\ [][RecoveryNext]_vars /\ RecoveryFairness

\* A consumption in progress and shutdown(): a started Connection on whose
\* channels nothing is subscribed but the handlers of iter().
ClosingInit ==
    /\ device = "hrm"
    /\ Started
    /\ slots = NoSlots
    /\ pending = <<>>
    /\ seen = NoSeen
    /\ stream = NoStream
    /\ notif = NoNotif
    /\ first_conn_ok_fut = "none"

ClosingNext ==
    \/ \E i \in Ids : LoopIterate(i)
    \/ \E i \in Ids : ConnectResolve(i)
    \/ \E i \in Ids : PrepareResolve(i)
    \/ \E i \in Ids : LoopLost(i)
    \/ \E i \in Ids : TaskCancelled(i)
    \/ LinkDrop
    \/ OrphanDrop
    \/ \E i \in Ids : StartFinally(i)
    \/ Shutdown
    \/ ShutdownReturn
    \/ \E val \in ClosingFrames : NotifyCallback(val)
    \/ RunHandler
    \/ StreamOpen
    \/ StreamGet
    \/ StreamPull
    \/ StreamAbandon
    \/ StreamClose

ClosingSpec == ClosingInit /\ [][ClosingNext]_vars

\* The event loop runs every scheduled invocation and every coroutine whose
\* await has resolved; the consumer keeps pulling.  The transport and the
\* peripheral are under no obligation.
StreamFairness ==
    /\ \A i \in Ids : WF_vars(TaskStep(i))
    /\ WF_vars(RunHandler)
    /\ WF_vars(StreamGet)
    /\ WF_vars(StreamPull)

\* iter() is consumed while the peripheral sends one and the same value.
FairStreamNext ==
    \/ \E i \in Ids : LoopIterate(i)
    \/ \E i \in Ids : ConnectResolve(i)
    \/ \E i \in Ids : PrepareResolve(i)
    \/ \E i \in Ids : LoopLost(i)
    \/ LinkDrop
    \/ \E val \in ClosingFrames : NotifyCallback(val)
    \/ RunHandler
    \/ StreamOpen
    \/ StreamGet
    \/ StreamPull
    \/ StreamAbandon
    \/ StreamClose

FairStreamSpec == StreamInit /\ [][FairStreamNext]_vars /\ StreamFairness

(***************************************************************************)
(* The decoder on its own: a frame is drawn, and one of the two decoding   *)
(* functions of the repository is applied to it.                           *)
(***************************************************************************)

\* The bytes that follow the flags byte in the frames drawn.
DataBytes == {0, 1, 44, 60, 75, 255}

\* The frames drawn with n bytes after the flags byte.
Frames(n) == {<<f>> \o d : f \in Bytes, d \in [1..n -> DataBytes]}

\* A constructed Connection that has not been started.
Idle ==
    /\ client = "none"
    /\ orphans = NoOrphans
    /\ reconnect_task = 0
    /\ task = [i \in Ids |-> NoTask]
    /\ starter = [i \in Ids |-> NoStarter]
    /\ pubs = [starting |-> 0, shutting_down |-> 0]
    /\ api = NoCalls

DecodeInit ==
    /\ device = "hrm"
    /\ Idle
    /\ slots = NoSlots
    /\ pending = <<>>
    /\ seen = NoSeen
    /\ stream = NoStream
    /\ \/ notif = NoNotif
       \/ \E n \in 0..(MaxFrameLen - 1) :
            \E f \in Frames(n) : notif = [NoNotif EXCEPT !.frame = f]
    /\ first_conn_ok_fut = "none"

\* conn.parse_hrm_pkg applied to the frame.
DecodeFrame ==
    /\ notif.did = "none"
    /\ notif' = [notif EXCEPT !.did = "parse_hrm_pkg",
                              !.reading = parse_hrm_pkg(notif.frame)]
    /\ UNCHANGED <<device, client, orphans, reconnect_task, task, starter, pubs, api,
                   slots, pending, seen, stream, first_conn_ok_fut>>

\* data.parse_val applied to the frame.
ParseVal ==
    /\ notif.did = "none"
    /\ notif' = [notif EXCEPT !.did = "parse_val",
                              !.reading = parse_val(notif.frame)]
    /\ UNCHANGED <<device, client, orphans, reconnect_task, task, starter, pubs, api,
                   slots, pending, seen, stream, first_conn_ok_fut>>

DecodeNext == DecodeFrame \/ ParseVal

DecodeSpec == DecodeInit /\ [][DecodeNext]_vars

(***************************************************************************)
(* construct_available_conn (main.py lines 83-104): build a Connection,    *)
(* subscribe _prepared and _failed, start it in a task of its own and wait *)
(* for the future one of the two handlers sets.                            *)
(***************************************************************************)

\* The handlers subscribed when start() is scheduled: the logging handlers of
\* construct_conn (line 84), then _prepared and _failed (lines 88-94).
ProbedSlots ==
    [LoggedSlots EXCEPT !["prepared"] = Append(@, "_prepared"),
                        !["connect_failed"] = Append(@, "_failed")]

\* construct_available_conn suspended in `await first_conn_ok_fut` (line 98):
\* the Connection is constructed, the future pending, and the task of line 96
\* is scheduled and has not run.
AvailableInit ==
    /\ device \in Devices
    /\ client = "none"
    /\ orphans = NoOrphans
    /\ reconnect_task = 0
    /\ task = [i \in Ids |-> NoTask]
    /\ starter = [i \in Ids |-> NoStarter]
    /\ pubs = [starting |-> 0, shutting_down |-> 0]
    /\ api = [NoCalls EXCEPT !.probe = "await_fut"]
    /\ slots = ProbedSlots
    /\ pending = <<>>
    /\ seen = NoSeen
    /\ stream = NoStream
    /\ notif = NoNotif
    /\ first_conn_ok_fut = "pending"

\* The task created at line 96 runs conn.start() up to its await.
StartTaskRuns ==
    /\ api.probe # "none"
    /\ NextSlot = 1
    /\ Start(1)

\* Lines 98-103: the future is done and construct_available_conn resumes.  On
\* True it removes its two handlers and returns the Connection; on False it
\* runs shutdown() up to its await.
AwaitFirstConnOk ==
    /\ api.probe = "await_fut"
    /\ first_conn_ok_fut \in {"True", "False"}
    /\ IF first_conn_ok_fut = "True"
       THEN /\ slots' = [slots EXCEPT !["prepared"] = Remove(@, "_prepared"),
                                      !["connect_failed"] = Remove(@, "_failed")]
            /\ api' = [api EXCEPT !.probe = "returned_conn"]
            /\ UNCHANGED <<client, orphans, reconnect_task, task, pubs, pending, seen,
                           stream, notif, first_conn_ok_fut>>
       ELSE /\ ShutdownBody
            /\ api' = [api EXCEPT !.probe = IF client = "up" THEN "closing"
                                            ELSE "returned_None",
                                  !.shut_row = ShutRow]
    /\ UNCHANGED <<device, starter>>

\* Lines 103-104: the disconnect() of shutdown() returns; return None.
AvailableReturnNone ==
    /\ api.probe = "closing"
    /\ api' = [api EXCEPT !.probe = "returned_None"]
    /\ orphans' \in Disconnected(orphans)
    /\ UNCHANGED <<device, client, reconnect_task, task, starter, pubs>>
    /\ UNCHANGED bus

AvailableNext ==
    \/ StartTaskRuns
    \/ \E i \in Ids : LoopIterate(i)
    \/ \E i \in Ids : ConnectResolve(i)
    \/ \E i \in Ids : PrepareResolve(i)
    \/ \E i \in Ids : LoopLost(i)
    \/ \E i \in Ids : TaskCancelled(i)
    \/ LinkDrop
    \/ OrphanDrop
    \/ \E i \in Ids : StartFinally(i)
    \/ \E i \in Ids : StartReturn(i)
    \/ RunHandler
    \/ AwaitFirstConnOk
    \/ AvailableReturnNone

\* The event loop runs every task that is ready: the task of line 96, the loop
\* task, the start() whose task is done, every scheduled invocation, and
\* construct_available_conn once its future is done or its disconnect() has
\* returned.  Every connect() resolves.  Link drops are under no obligation.
AvailableFairness ==
    /\ WF_vars(StartTaskRuns)
    /\ \A i \in Ids : WF_vars(TaskStep(i))
    /\ \A i \in Ids : WF_vars(StartFinally(i))
    /\ \A i \in Ids : WF_vars(StartReturn(i))
    /\ WF_vars(RunHandler)
    /\ WF_vars(AwaitFirstConnOk)
    /\ WF_vars(AvailableReturnNone)

AvailableSpec == AvailableInit /\ [][AvailableNext]_vars /\ AvailableFairness

(***************************************************************************)
(* Properties                                                              *)
(***************************************************************************)

\* shutdown() has reached task i: its cancellation is pending or delivered.
ShutDown(i) == task[i].st \in {"cancelling", "cancelled"}

\* C1: link loss is always recovered.  Once the transport has invoked the
\* disconnect callback in a cycle of a running loop (during the preparation
\* step or during the wait for loss), the loop eventually starts a new connect
\* attempt (having cleared client and published connection_lost), unless
\* shutdown() is called.
C1_LinkLossRecovered ==
    \A i \in Ids :
        (task[i].st = "active" /\ task[i].dropped)
            ~> (ShutDown(i) \/ (task[i].pc = "connect" /\ ~task[i].dropped))

\* The loop of task i is alive and no shutdown() has reached it.
Supervising(i) == task[i].st = "active"

\* C2: connect failures are retried forever.  On a peripheral whose connect()
\* always fails, a started loop that no shutdown() has reached publishes
\* connect_failed again and again, once per failed attempt and with a retry
\* wait between two attempts; it never ends by itself, start() neither
\* returns nor raises before a shutdown(), and prepared is never published.
C2_ConnectFailuresRetriedForever ==
    /\ [](device = "unreachable" =>
            \A i \in Ids :
                /\ task[i].pubs.prepared = 0
                /\ task[i].st # "crashed"
                /\ starter[i].pc \in {"closing", "done"} => ShutDown(i)
                /\ task[i].pc = "connect" => task[i].pubs.connect_failed = 0
                /\ task[i].pc = "retry_wait" => task[i].pubs.connect_failed = 1)
    /\ [][device = "unreachable" =>
            \A i \in Ids :
                (task[i].pc # "connect" /\ task'[i].pc = "connect")
                    => task[i].pc \in {"init", "retry_wait"}]_vars
    /\ \A i \in Ids :
            []<>(device = "unreachable" /\ Supervising(i) => task[i].pc = "retry_wait")
    /\ \A i \in Ids :
            []<>(device = "unreachable" /\ Supervising(i) => task[i].pc = "connect")

\* C2 witness: a running loop is in the retry wait after a failed attempt on
\* the peripheral whose connect() always fails, with start() still pending.
C2_Witness ==
    /\ device = "unreachable"
    /\ \E i \in Ids :
          /\ Supervising(i)
          /\ task[i].pc = "retry_wait"
          /\ task[i].pubs.connect_failed = 1
          /\ starter[i].pc = "await_task"

\* The cycle of the referenced loop task is past a successful connect() and
\* not yet torn down (no link loss handled, no shutdown()).
InSuccessfulCycle ==
    /\ started
    /\ task[reconnect_task].st \in {"active", "crashed"}
    /\ task[reconnect_task].pc \in {"prepare", "wait", "woken"}

\* C3 as stated: client is non-null only while a connect attempt has succeeded
\* and has not yet been torn down; in every other state (idle, connect attempt
\* in progress, retry wait after a failed attempt, after link loss, after
\* shutdown) client is null.
C3_ClientNullUnlessConnected ==
    client # "none" => InSuccessfulCycle

\* C3 amended: client is non-null only from the start of a connect attempt of
\* the referenced loop task until the link loss is handled or shutdown() is
\* called.  During the attempt and during the retry wait after a failed
\* attempt it holds the unconnected handle; `connected` holds only in a cycle
\* whose connect attempt has succeeded and that has not been torn down; client
\* is null before the first start(), after a handled link loss and after
\* shutdown().
C3_ClientLifetime ==
    /\ connected => InSuccessfulCycle
    /\ client # "none" =>
            /\ started
            /\ task[reconnect_task].pc \in {"connect", "retry_wait", "prepare", "wait", "woken"}
    /\ NextSlot = 1 => client = "none"
    /\ api.shut_row > 0 => client = "none"
    /\ \A i \in Ids :
            /\ Supervising(i) /\ task[i].pc = "lost_wait" => client = "none"
            /\ Supervising(i) /\ task[i].pc \in {"connect", "retry_wait"} => client = "down"

\* C3 witness: a running loop sleeps after a failed connect attempt and client
\* still holds the handle of that attempt.
C3_Witness ==
    \E i \in Ids :
        /\ Supervising(i)
        /\ task[i].pc = "retry_wait"
        /\ task[i].pubs.connect_failed = 1
        /\ client = "down"

\* The loop tasks that can still run loop code: created, not finished, and
\* with no cancellation pending.
LiveTasks == {i \in Ids : task[i].st = "active"}

\* C4: a Connection has at most one supervising loop task at any time,
\* whatever the interleaving of start(), shutdown() and __aenter__, and it is
\* the one _reconnect_task refers to; start() is refused (raises) only on a
\* started Connection, and then publishes nothing, creates no task and leaves
\* the running loop as it is.
C4_AtMostOneLoopTask ==
    /\ [](/\ Cardinality(LiveTasks) <= 1
          /\ \A i \in LiveTasks : reconnect_task = i)
    /\ [][api'.refused # api.refused
            => /\ started
               /\ UNCHANGED <<client, orphans, reconnect_task, task, starter, pubs>>]_vars

\* C4 witness: start() has just been refused while a loop task is waiting for
\* link loss.
C4_Witness ==
    /\ api.refused = 1
    /\ \E i \in Ids : LiveTasks = {i} /\ task[i].pc = "wait" /\ reconnect_task = i

\* The publications a loop iteration has made when it is at pc.
CyclePubs(pc) ==
    [ch \in LoopChannels |->
        IF \/ ch = "connecting" /\ pc # "init"
           \/ ch = "connect_failed" /\ pc = "retry_wait"
           \/ ch = "connected" /\ pc \in {"prepare", "wait", "woken", "lost_wait"}
           \/ ch = "prepared" /\ pc \in {"wait", "woken", "lost_wait"}
           \/ ch = "connection_lost" /\ pc = "lost_wait"
        THEN 1 ELSE 0]

\* The loops that ended by themselves and were shut down by start()'s finally.
SelfEnded == {i \in Ids : task[i].st = "crashed" /\ starter[i].pc \in {"closing", "done"}}

\* C5: every occurrence of a lifecycle transition publishes its channel
\* exactly once.  Each accepted start() has published starting once; each
\* loop iteration has published connecting, connect_failed, connected,
\* prepared and connection_lost once for the connect attempt, failure,
\* success, preparation and link loss it has been through, and no link loss
\* is left unpublished; each shutdown (a shutdown() call from outside, or the
\* end of a loop that stopped by itself) has published shutting_down once.
C5_OncePerOccurrence ==
    /\ pubs.starting = NextSlot - 1
    /\ \A i \in Ids :
          /\ task[i].st # "crashed" => task[i].pubs = CyclePubs(task[i].pc)
          /\ task[i].st = "crashed" => task[i].pubs = CyclePubs("prepare")
          /\ Supervising(i) /\ task[i].pc = "wait" => ~task[i].dropped
    /\ pubs.shutting_down = api.shutdowns + Cardinality(SelfEnded)

\* C6: a peripheral without the telemetry characteristic is fatal for the
\* loop.  The task ends in the preparation step with that error, prepared is
\* not published, the task takes no further step (no retry, no connect
\* attempt), the start() that awaited it raises that error, and when it does
\* started is false and client is null.
C6_MissingCharacteristicFatal ==
    /\ [](\A i \in Ids :
            /\ (device = "no_hrm" /\ task[i].pc = "prepare")
                  => (task[i].st = "crashed" /\ task[i].err = "UnsupportedDevice")
            /\ task[i].err = "UnsupportedDevice"
                  => /\ task[i].st = "crashed"
                     /\ task[i].pubs.prepared = 0
                     /\ starter[i].pc \in {"closing", "done"}
                            => starter[i].result = "UnsupportedDevice")
    /\ [][\A i \in Ids :
            /\ task[i].st = "crashed" => task'[i] = task[i]
            /\ (task[i].err = "UnsupportedDevice"
                   /\ starter[i].pc = "await_task" /\ starter'[i].pc # "await_task")
                  => (~started' /\ client' = "none")]_vars

\* C6 witness: start() has raised the missing-characteristic error of its
\* loop task, which had connected; started is false and client is null.
C6_Witness ==
    \E i \in Ids :
        /\ starter[i].pc = "done"
        /\ starter[i].result = "UnsupportedDevice"
        /\ task[i].pubs.connected = 1
        /\ ~started
        /\ client = "none"

\* C7: shutdown() is terminal for the running loop.  From a shutdown() until
\* the next accepted start() no loop task can run, no loop task moves or
\* publishes on connecting, connect_failed, connected, prepared or
\* connection_lost, and client stays null.
C7_ShutdownTerminal ==
    /\ [](api.shut_row > 0 => (LiveTasks = {} /\ client = "none" /\ ~started))
    /\ [][(api.shut_row > 0 /\ api'.shut_row > 0)
            => \A i \in Ids : /\ task'[i].pc = task[i].pc
                              /\ task'[i].pubs = task[i].pubs]_vars

\* C7 witness: shutdown() has hit one loop during its connect attempt and,
\* after a restart, another one while it waited for link loss.
C7_Witness ==
    /\ api.shut_row > 0
    /\ \E i, j \in Ids :
          /\ task[i].st = "cancelled" /\ task[i].pc = "connect"
          /\ task[j].st = "cancelled" /\ task[j].pc = "wait"

\* Every shutdown() has returned and every cancelled loop has stopped.
ShutdownComplete ==
    /\ ~started
    /\ \A i \in Ids : task[i].st \notin {"active", "cancelling"}
    /\ orphans.closing = 0
    /\ orphans.gone = 0

\* C8: shutdown() force-closes the transport handle.  Once shutdown() has
\* returned and the cancelled loop has stopped, no handle created by the
\* Connection is connected, wherever the loop was when shutdown() was called.
C8_NoHandleLeftConnected ==
    ShutdownComplete => ConnectedHandles = 0

\* C8 witness: shutdown() was called on loops that held a connected handle
\* (one preparing, one waiting for loss); all of it has completed.
C8_Witness ==
    /\ ShutdownComplete
    /\ api.shutdowns = 2
    /\ \E i, j \in Ids :
          /\ task[i].st = "cancelled" /\ task[i].pc = "prepare" /\ ~task[i].dropped
          /\ task[j].st = "cancelled" /\ task[j].pc = "wait" /\ ~task[j].dropped

\* C9: shutdown() is idempotent.  Every shutdown() call, on a started
\* Connection or not, leaves started false and client null, and a shutdown()
\* that follows another one with no start() in between changes nothing of the
\* Connection: it only publishes shutting_down once more.
C9_ShutdownIdempotent ==
    [][api'.shutdowns = api.shutdowns + 1
        => /\ ~started' /\ client' = "none"
           /\ pubs'.shutting_down = pubs.shutting_down + 1
           /\ api.shut_row > 0
                => UNCHANGED <<client, reconnect_task, task, starter, orphans>>]_vars

\* C9 witness: two shutdown() calls in succession on a Connection that was
\* started and waiting for link loss; the finally of its start() has not run.
C9_Witness ==
    /\ api.shutdowns = 2
    /\ api.shut_row = 2
    /\ \E i \in Ids :
          ShutDown(i) /\ task[i].pc = "wait" /\ starter[i].pc = "await_task"
    /\ ~started
    /\ client = "none"

\* C10: a Connection can be restarted after a clean shutdown.  The loop task
\* of a start() stops running only through a shutdown() call made from
\* outside or through an error of its own preparation step, also while the
\* coroutine of an earlier start() is still pending.
C10_RestartKeepsRunning ==
    [][\A i \in Ids :
        (Supervising(i) /\ ~Supervising(i)')
            => \/ api'.shutdowns = api.shutdowns + 1
               \/ task'[i].st = "crashed"]_vars

\* Bit k of the flags byte of frame f.
FlagBit(f, k) == (f[1] \div 2^k) % 2

\* A frame long enough for its flags: two bytes, three with the 16-bit flag.
SufficientLength(f) == Len(f) >= 2 /\ (FlagBit(f, 0) = 1 => Len(f) >= 3)

\* The frame with every flag bit above bit 2 cleared and every byte after the
\* heart-rate value removed.
Essential(f) ==
    <<f[1] % 8>> \o SubSeq(f, 2, IF FlagBit(f, 0) = 1 THEN 3 ELSE 2)

\* A decoding function has been applied to the frame drawn.
Decoded == notif.did \in {"parse_hrm_pkg", "parse_val"}

\* C17: for every frame of sufficient length, both decoding functions follow
\* the bit layout of the flags byte: heart_rate is byte 1 when bit 0 is 0 and
\* byte 1 + 256 * byte 2 when bit 0 is 1; sensor_contact is None when bit 2 is
\* 0 and otherwise True or False as bit 1 is set or clear; and the result is
\* the one computed for the same frame without its other flag bits and its
\* trailing bytes.
C17_DecodeFollowsBitLayout ==
    (Decoded /\ SufficientLength(notif.frame)) =>
        LET f == notif.frame
            r == notif.reading
        IN  /\ ~Raised(r)
            /\ r.heart_rate = IF FlagBit(f, 0) = 0 THEN f[2] ELSE f[2] + 256 * f[3]
            /\ r.sensor_contact = IF FlagBit(f, 2) = 0 THEN "None"
                                  ELSE IF FlagBit(f, 1) = 1 THEN "True" ELSE "False"
            /\ r = (IF notif.did = "parse_val"
                    THEN parse_val(Essential(f)) ELSE parse_hrm_pkg(Essential(f)))

\* parse_hrm_pkg has decoded a 16-bit frame with a non-zero high byte, bits 2,
\* 3 and 5 of the flags set and one trailing byte.
C17_Witness ==
    /\ notif.did = "parse_hrm_pkg"
    /\ notif.frame = <<45, 44, 1, 75>>
    /\ notif.reading = HRMData(300, "False")

\* parse_hrm_pkg has decoded frame f.
Parsed(f) == notif.did = "parse_hrm_pkg" /\ notif.frame = f

\* C18 as stated: [0, 75] gives heart_rate 75 and sensor_contact None;
\* [5, 0x2C, 0x01] gives heart_rate 300 and sensor_contact None; [7, 60, 0]
\* gives sensor_contact True; [3, 60, 0] gives sensor_contact False.
C18_ExampleReadings ==
    /\ Parsed(<<0, 75>>) => notif.reading = HRMData(75, "None")
    /\ Parsed(<<5, 44, 1>>) => notif.reading = HRMData(300, "None")
    /\ Parsed(<<7, 60, 0>>) =>
            ~Raised(notif.reading) /\ notif.reading.sensor_contact = "True"
    /\ Parsed(<<3, 60, 0>>) =>
            ~Raised(notif.reading) /\ notif.reading.sensor_contact = "False"

\* C18, amended: [0, 75] gives heart_rate 75 and sensor_contact None;
\* [5, 0x2C, 0x01], whose flags have bit 2 set and bit 1 clear, gives
\* heart_rate 300 and sensor_contact False; [7, 60, 0] gives sensor_contact
\* True; [3, 60, 0], whose flags have bit 2 clear, gives sensor_contact None.
C18_ExampleReadingsByLayout ==
    /\ Parsed(<<0, 75>>) => notif.reading = HRMData(75, "None")
    /\ Parsed(<<5, 44, 1>>) => notif.reading = HRMData(300, "False")
    /\ Parsed(<<7, 60, 0>>) => notif.reading = HRMData(60, "True")
    /\ Parsed(<<3, 60, 0>>) => notif.reading = HRMData(60, "None")

\* parse_hrm_pkg has decoded the second example frame.
C18_Witness == Parsed(<<5, 44, 1>>) /\ ~Raised(notif.reading)

\* The step is a run of the notification callback.
Notified == notif'.clock = notif.clock + 1

\* The invocations a data_received publication of the callback schedules.
DataInvocations ==
    [k \in 1..Len(slots["data_received"]) |->
        [ch |-> "data_received", h |-> slots["data_received"][k],
         arg |-> <<parse_hrm_pkg(notif'.frame), notif'.clock>>, at |-> "scheduled"]]

\* C14: a notification that arrives while data_received has no subscriber is
\* neither decoded nor published; a well-formed notification that arrives
\* while there is at least one subscriber makes exactly one data_received
\* publication, which carries the decoded reading and the time of the
\* notification to every subscriber.
C14_PublishedOnlyForSubscribers ==
    [][Notified =>
         IF slots["data_received"] = <<>>
         THEN /\ notif'.did = "skipped"
              /\ notif'.reading = Nothing
              /\ notif'.published = notif.published
              /\ pending' = pending
         ELSE SufficientLength(notif'.frame) =>
              /\ notif'.did = "published"
              /\ notif'.reading = parse_hrm_pkg(notif'.frame)
              /\ notif'.published = notif.published + 1
              /\ pending' = pending \o DataInvocations]_vars

\* A well-formed notification has been published to two subscribers, whose
\* invocations are scheduled.
C14_Witness ==
    /\ notif.did = "published"
    /\ notif.reading = HRMData(300, "False")
    /\ Len(slots["data_received"]) = 2
    /\ \E k \in 1..Len(pending) :
            pending[k].ch = "data_received" /\ pending[k].arg = <<notif.reading, notif.clock>>

\* The number of scheduled invocations of handler h.
Scheduled(h) == Cardinality({k \in 1..Len(pending) : pending[k].h = h})

\* C15: the failure of a subscriber is isolated.  Where a handler that raises
\* and one that returns are subscribed to the same channels, every
\* publication that runs the first also runs the second, sig_exc_handler is
\* called exactly once per run of the raising handler, and that run changes
\* nothing of the supervising loop or of the notification callback, whose task
\* never ends with an exception.  seen.ok and seen.bad stop counting at
\* MaxSeen, so the equality of the runs is stated while neither has stopped;
\* the scheduling itself is stated for every publication.
C15_SubscriberFailureIsolated ==
    /\ [](seen.excs = seen.bad)
    /\ [][(slots["data_received"] = <<"bad", "ok">>
                /\ Scheduled("bad")' > Scheduled("bad")) =>
            Scheduled("ok")' - Scheduled("ok") = Scheduled("bad")' - Scheduled("bad")]_vars
    /\ []((slots["data_received"] = <<"bad", "ok">> /\ seen.bad < MaxSeen
                                                      /\ seen.ok < MaxSeen) =>
            seen.ok + Scheduled("ok") = seen.bad + Scheduled("bad"))
    /\ [](\A i \in Ids : task[i].st # "crashed")
    /\ [][Scheduled("bad")' < Scheduled("bad") =>
            /\ seen'.excs = Counted(seen.excs)
            /\ Scheduled("ok")' = Scheduled("ok")
            /\ UNCHANGED <<client, reconnect_task, task, starter, slots, notif>>]_vars

\* The raising handler has run for a connected and for a data_received
\* publication, the other handler as well, and the loop waits for a link loss.
C15_Witness ==
    /\ seen.bad = 2 /\ seen.ok = 2 /\ seen.excs = 2
    /\ notif.published = 1
    /\ task[1].st = "active" /\ task[1].pc = "wait"

\* C16: a malformed frame is dropped without harm.  A notification whose frame
\* has length 0 or 1, or length 2 with the 16-bit flag, publishes nothing, and
\* the failure of its decoding does not leave the notification callback.
C16_MalformedFrameDropped ==
    [][(Notified /\ ~SufficientLength(notif'.frame)) =>
            /\ notif'.did # "raised"
            /\ notif'.published = notif.published
            /\ pending' = pending]_vars

\* The subscriber lists while the generator of iter() is in progress.
Subscribed ==
    [NoSlots EXCEPT !["data_received"] = <<"recv">>, !["connection_lost"] = <<"lost">>]

\* The handlers of iter() in the subscriber lists sl.
OfStream(sl) ==
    [ch \in Channels |-> SelectSeq(sl[ch], LAMBDA h : h \in {"recv", "lost"})]

\* The handlers of others in the subscriber lists sl.
OfOthers(sl) ==
    [ch \in Channels |-> SelectSeq(sl[ch], LAMBDA h : h \notin {"recv", "lost"})]

\* C12: a stream never leaves a subscription behind.  When the consumption has
\* ended, by the end marker, by the consumer abandoning it (it has stopped
\* pulling, or the generator has been closed) or because the Connection was
\* not connected at the first pull, neither _recv nor _lost is subscribed, as
\* before the first pull; while it is in progress each is subscribed once; and
\* no step of the generator changes the subscriptions of others, so the
\* subscriber lists at the end are those from before the call but for what
\* the others have done themselves.
C12_NoSubscriptionLeftBehind ==
    /\ [](stream.pc \in {"idle", "ended", "left"} => OfStream(slots) = NoSlots)
    /\ [](stream.pc \in {"pulling", "yielded"} => OfStream(slots) = Subscribed)
    /\ [][stream'.pc # stream.pc => OfOthers(slots') = OfOthers(slots)]_vars

\* The generator of iter() is subscribed and has not ended.
InProgress == stream.pc \in {"pulling", "yielded"}

\* What is on its way to the consumer: the queue, then what the scheduled
\* invocations of _recv and _lost will put (in the order of their publication;
\* they are put in the order in which the invocations run).
OnTheWay ==
    LET mine == SelectSeq(pending, LAMBDA inv : inv.h \in {"recv", "lost"})
    IN  stream.queue \o
        [k \in 1..Len(mine) |->
            IF mine[k].h = "lost" THEN None(mine[k].arg[1]) ELSE mine[k].arg]

\* connection_lost has been published to the generator in progress.
LossPublished == InProgress /\ \E k \in 1..Len(OnTheWay) : IsNone(OnTheWay[k])

\* The time of the first connection_lost publication on its way.
LossTime ==
    LET times == {OnTheWay[k][1] : k \in {j \in 1..Len(OnTheWay) : IsNone(OnTheWay[j])}}
    IN  CHOOSE t \in times : \A u \in times : t <= u

\* The time of the publication that queue element x comes from.
TimeOf(x) == x[Len(x)]

\* The consumption has ended, or the consumer has stopped pulling.
EndedOrLeft == stream.pc \in {"ended", "left"}

\* C11, as stated: a stream started on a connected Connection terminates on
\* connection loss.  Once connection_lost has been published to a consumption
\* in progress, nothing published after that publication is yielded, and the
\* consumption ends, the consumer pulling whenever an element is ready.
C11_StreamEndsOnConnectionLoss ==
    /\ [](LossPublished =>
            \A k \in 1..Len(stream.out) : TimeOf(stream.out[k]) <= LossTime)
    /\ []((stream.pc = "ended" /\ stream.how = "marker") =>
            \A k \in 1..Len(stream.out) : TimeOf(stream.out[k]) <= stream.upto)
    /\ (LossPublished ~> EndedOrLeft)

\* C11, amended: a stream terminates at the end marker.  The consumption
\* yields only the element at the head of the queue, and never an end marker,
\* so nothing that _recv has put behind the marker of _lost is yielded; the
\* generator that finds the marker at the head of the queue ends; once ended
\* it yields nothing more; and a connection_lost publication to a consumption
\* in progress is followed by its end, the scheduled handlers running and the
\* consumer pulling whenever an element is ready.  (A reading published after
\* the loss is yielded when _recv runs for it before _lost has run.)
C11_StreamEndsAtMarker ==
    /\ [][stream'.out # stream.out =>
            /\ stream.queue # <<>>
            /\ ~IsNone(Head(stream.queue))
            /\ stream'.out = Append(stream.out, Head(stream.queue))]_vars
    /\ [][(InProgress /\ stream.queue # <<>> /\ IsNone(Head(stream.queue))
                      /\ stream'.pc # stream.pc) =>
            /\ stream'.pc \in {"ended", "left"}
            /\ stream'.out = stream.out]_vars
    /\ [][stream.pc = "ended" => stream' = stream]_vars
    /\ (LossPublished ~> EndedOrLeft)

\* The consumption has ended by the end marker, having yielded a reading, and
\* a reading has been published after the loss.
C11_Witness ==
    /\ stream.pc = "ended"
    /\ stream.how = "marker"
    /\ stream.out # <<>>
    /\ notif.did = "published"
    /\ notif.clock > stream.upto

\* C19, as stated: a stream delivers the readings in order.  The readings
\* yielded are those published since the generator subscribed, one after the
\* other in the order of their publication and each once; when the end marker
\* ends the consumption every reading published before the connection_lost
\* publication has been yielded.
C19_ReadingsInOrderExactlyOnce ==
    /\ \A k \in 1..Len(stream.out) :
            /\ ~IsNone(stream.out[k])
            /\ TimeOf(stream.out[k]) = stream.since + k
    /\ InProgress =>
            \A k \in 1..Len(OnTheWay) :
                \A m \in 1..(k - 1) :
                    (~IsNone(OnTheWay[k]) /\ ~IsNone(OnTheWay[m])) =>
                        TimeOf(OnTheWay[m]) < TimeOf(OnTheWay[k])
    /\ (InProgress /\ ~LossPublished) =>
            Len(stream.out) + Len(OnTheWay) = notif.clock - stream.since
    /\ (stream.pc = "ended" /\ stream.how = "marker") =>
            Len(stream.out) = stream.upto - stream.since

\* The readings among the elements of seq.
Readings(seq) == SelectSeq(seq, LAMBDA x : ~IsNone(x))

\* The readings yielded, queued or scheduled for the generator.
Accounted == Readings(stream.out \o OnTheWay)

\* C19, amended: a stream delivers what is put in its queue in order and
\* exactly once.  While _recv is subscribed every reading published since the
\* generator subscribed is, once and only once, yielded, queued or scheduled
\* for _recv; _recv puts its reading at the tail of the queue; the consumption
\* yields the head of the queue and takes it out, never an end marker; and the
\* end marker ends the consumption only from the head of the queue, when all
\* that was put before it has been yielded.  (The readings are yielded in the
\* order in which _recv ran for them, and a reading for which _recv runs after
\* _lost is not yielded.)
C19_QueuedInOrderExactlyOnce ==
    /\ [](\A k \in 1..Len(stream.out) : ~IsNone(stream.out[k]))
    /\ [](stream.pc \in {"pulling", "yielded", "left"} =>
            /\ Len(Accounted) = notif.clock - stream.since
            /\ {TimeOf(Accounted[k]) : k \in 1..Len(Accounted)}
                    = (stream.since + 1)..notif.clock)
    /\ [][\A k \in 1..Len(pending) :
            (pending[k].h = "recv" /\ pending' = Without(pending, k)
                                   /\ stream.pc # "ended") =>
                stream'.queue = Append(stream.queue, pending[k].arg)]_vars
    /\ [][stream'.out # stream.out =>
            /\ stream.queue # <<>>
            /\ stream'.out = Append(stream.out, Head(stream.queue))
            /\ stream'.queue = Tail(stream.queue)]_vars
    /\ [][(stream.pc # "ended" /\ stream'.pc = "ended" /\ stream'.how = "marker") =>
            /\ stream.queue # <<>>
            /\ IsNone(stream.queue[1])
            /\ stream'.out = stream.out]_vars

\* The consumption has yielded two readings and has ended by the end marker.
C19_Witness ==
    /\ stream.pc = "ended"
    /\ stream.how = "marker"
    /\ Len(stream.out) = 2
    /\ stream.out[1][1] # stream.out[2][1]

\* The number of end markers on their way to the consumer.
MarkersOnTheWay == Cardinality({k \in 1..Len(OnTheWay) : IsNone(OnTheWay[k])})

\* The step is a run of shutdown() up to its await.
ShutdownRuns == pubs'.shutting_down = pubs.shutting_down + 1

\* shutdown() has run, no handle is connected any more, and a consumer is
\* blocked in queue.get() with nothing on its way to it.
BlockedAfterShutdown ==
    /\ pubs.shutting_down > 0
    /\ reconnect_task = 0
    /\ ConnectedHandles = 0
    /\ stream.pc = "pulling"
    /\ OnTheWay = <<>>

\* C20: a stream in progress ends only through the end marker pushed for a
\* connection_lost publication, or by the consumer abandoning it.  An end
\* marker is scheduled only by the loop's connection_lost publication;
\* shutdown() schedules none and leaves the generator and the subscriber lists
\* as they are; so once shutdown() has run and what was published before it
\* has been delivered, a consumer blocked in queue.get() stays blocked, with
\* _recv and _lost subscribed, until it abandons the stream.
C20_ShutdownDoesNotEndStream ==
    /\ [][(InProgress /\ stream'.pc = "ended") =>
            \/ stream'.how = "abandoned"
            \/ /\ stream'.how = "marker"
               /\ stream.queue # <<>>
               /\ IsNone(Head(stream.queue))]_vars
    /\ [][MarkersOnTheWay' > MarkersOnTheWay =>
            \E i \in Ids : task[i].pc = "woken" /\ task'[i].pc = "lost_wait"]_vars
    /\ [][ShutdownRuns =>
            /\ stream' = stream
            /\ slots' = slots
            /\ MarkersOnTheWay' = MarkersOnTheWay]_vars
    /\ [][BlockedAfterShutdown =>
            \/ BlockedAfterShutdown' /\ OfStream(slots') = Subscribed
            \/ stream'.pc = "ended" /\ stream'.how = "abandoned"]_vars
    /\ []((pubs.shutting_down > 0 /\ InProgress) => OfStream(slots) = Subscribed)

\* shutdown() has been called on a Connection with a consumption in progress,
\* the task is cancelled, and the consumer is blocked with both handlers
\* subscribed.
C20_Witness ==
    /\ BlockedAfterShutdown
    /\ api.shutdowns > 0
    /\ api.closing = 0
    /\ task[1].st = "cancelled"
    /\ starter[1].pc = "done"
    /\ OfStream(slots) = Subscribed
    /\ stream.out # <<>>

\* The k-th lifecycle publication of a loop whose first connect() fails and
\* whose later ones succeed: connecting, connect_failed, connecting, connected,
\* prepared, and then connection_lost, connecting, connected, prepared for
\* every link loss.
Expected(k) ==
    IF k <= 5
    THEN <<"connecting", "connect_failed", "connecting", "connected", "prepared">>[k]
    ELSE <<"connection_lost", "connecting", "connected", "prepared">>[((k - 6) % 4) + 1]

\* The number of publications on channel ch that the logging handlers have
\* been passed: those they have logged and those of their scheduled
\* invocations.
Logged(ch) ==
    seen.log[ch] + Cardinality({k \in 1..Len(pending) :
                                    pending[k].h = "log" /\ pending[k].ch = ch})

\* The number of publications that the logging handlers have been passed.
AllLogged ==
    Lines(seen) + Cardinality({k \in 1..Len(pending) : pending[k].h = "log"})

\* C13: lifecycle events are published in transition order.  In every cycle
\* connecting has been published when the connect attempt is in progress,
\* connected when the preparation step is in progress and prepared only when
\* it is over; with a transport that fails once and then succeeds the
\* publications are connecting, connect_failed, connecting, connected,
\* prepared, in this order and once each, before anything else (the first n
\* publications passed to the logging handlers are the first n of that
\* sequence, whatever the order in which the handlers run), and the handlers
\* do log five publications unless shutdown() is called.
C13_PublishedInTransitionOrder ==
    /\ [](\A i \in Ids : task[i].pubs = CyclePubs(task[i].pc))
    /\ [](Lines(seen) < MaxLog =>
            \A ch \in LoopChannels :
                Logged(ch) = Cardinality({k \in 1..AllLogged : Expected(k) = ch}))
    /\ <>(Lines(seen) >= 5 \/ ShutDown(1))

\* The handlers have seen the five publications, and the loop waits for a
\* link loss on the second handle.
C13_Witness ==
    /\ seen.log = [NoPubs EXCEPT !["connecting"] = 2, !["connect_failed"] = 1,
                                 !["connected"] = 1, !["prepared"] = 1]
    /\ device = "reliable"
    /\ task[1].pc = "wait"
    /\ client = "up"

\* The first connect() of the Connection started at line 96 has resolved.
FirstAttemptResolved ==
    /\ task[1].st # "none"
    /\ task[1].pc \notin {"init", "connect"}

\* construct_available_conn has returned.
Returned == api.probe \in {"returned_conn", "returned_None"}

\* The Connection is returned only on a future set by _prepared, with
\* _prepared and _failed no longer subscribed.
ReturnsConnWhenPrepared ==
    api.probe = "returned_conn" =>
        /\ first_conn_ok_fut = "True"
        /\ \A k \in 1..Len(slots["prepared"]) : slots["prepared"][k] # "_prepared"
        /\ \A k \in 1..Len(slots["connect_failed"]) :
                slots["connect_failed"][k] # "_failed"

\* None is returned only on a future set by _failed, after shutdown() has run:
\* shutting_down published, no loop task referenced or running, no handle
\* referenced, and no handle connected but one whose disconnect() is in
\* flight in the shutdown() of start().
ReturnsNoneAfterShutdown ==
    api.probe = "returned_None" =>
        /\ first_conn_ok_fut = "False"
        /\ pubs.shutting_down >= 1
        /\ ~started
        /\ \A i \in Ids : task[i].st # "active"
        /\ client = "none"
        /\ orphans.up = 0

\* C21: construct_available_conn always eventually returns once the first
\* connect attempt of the Connection it started has resolved, whether that
\* attempt failed in connect(), connected and was prepared, or connected and
\* failed in the preparation step; it returns the Connection, with its two
\* handlers removed, when prepared was published first, and None after
\* shutting the Connection down otherwise.
C21_ReturnsAfterFirstAttempt ==
    /\ [](ReturnsConnWhenPrepared /\ ReturnsNoneAfterShutdown)
    /\ FirstAttemptResolved ~> Returned

\* The first attempt connected, the preparation step raised, start() has run
\* shutdown() and ended, and construct_available_conn still awaits its future.
PreparationFailedStillWaiting ==
    /\ device = "no_hrm"
    /\ task[1].st = "crashed"
    /\ starter[1].pc = "done"
    /\ pending = <<>>
    /\ first_conn_ok_fut = "pending"
    /\ api.probe = "await_fut"

====
